---- MODULE Spec2Model ----
(***************************************************************************)
(* servicepoint-life: two cellular automata per channel (pixels and        *)
(* brightness) rendered side by side with a moving divider.                *)
(*                                                                         *)
(* The module models                                                       *)
(*   - the main loop of src/src/main.rs (tick, swap/reseed, divider move,  *)
(*     frame merge, send, input drain),                                    *)
(*   - the Game of src/src/game.rs (field_iteration, count_neighbors,      *)
(*     luma_iteration, step),                                              *)
(*   - the rules of src/src/rules.rs that the above use.                   *)
(***************************************************************************)
EXTENDS Integers, Sequences, FiniteSets, TLC

(***************************************************************************)
(* Sizes.  The display of the library is 56 x 20 tiles of 8 x 8 pixels;    *)
(* the model keeps the tile size of main.rs and scales the tile counts.    *)
(***************************************************************************)
TileSize == 8

TileWidth == 2

TileHeight == 2

PixelHeight == 2

PixelWidth == TileWidth * TileSize

U8Max == 255

\* i32::clamp(v, lo, hi)
Clamp(v, lo, hi) == IF v < lo THEN lo ELSE IF v > hi THEN hi ELSE v

\* u8::max(a, b)
MaxOf(a, b) == IF a >= b THEN a ELSE b

(***************************************************************************)
(* Grids (PixelGrid, ByteGrid): fixed width and height, one value per      *)
(* cell, addressed by (x, y).                                              *)
(***************************************************************************)
Cells(w, h) == (0 .. w - 1) \X (0 .. h - 1)

NewGrid(w, h, v) == [width |-> w, height |-> h, cells |-> [c \in Cells(w, h) |-> v]]

Get(g, x, y) == g.cells[<<x, y>>]

Set(g, x, y, v) == [g EXCEPT !.cells[<<x, y>>] = v]

InBounds(g, x, y) == ~(x < 0 \/ y < 0 \/ x >= g.width \/ y >= g.height)

\* for x in 0..width { for y in 0..height { .. } }: the cells in visiting order
RECURSIVE ColumnFrom(_, _, _)
ColumnFrom(x, y, h) == IF y >= h THEN <<>> ELSE <<<<x, y>>>> \o ColumnFrom(x, y + 1, h)

RECURSIVE XMajorFrom(_, _, _)
XMajorFrom(x, w, h) == IF x >= w THEN <<>> ELSE ColumnFrom(x, 0, h) \o XMajorFrom(x + 1, w, h)

XMajorOrder(g) == XMajorFrom(0, g.width, g.height)

\* the same cells visited backwards
RECURSIVE Reversed(_)
Reversed(s) == IF s = <<>> THEN <<>> ELSE Reversed(Tail(s)) \o <<Head(s)>>

(***************************************************************************)
(* rules.rs: kernels                                                       *)
(***************************************************************************)
MOORE_NEIGHBORHOOD ==
    << <<TRUE, TRUE, TRUE>>,
       <<TRUE, FALSE, TRUE>>,
       <<TRUE, TRUE, TRUE>> >>

NEUMANN_NEIGHBORHOOD ==
    << <<FALSE, TRUE, FALSE>>,
       <<TRUE, FALSE, TRUE>>,
       <<FALSE, TRUE, FALSE>> >>

DIAGONALS_NEIGHBORHOOD ==
    << <<TRUE, FALSE, TRUE>>,
       <<FALSE, TRUE, FALSE>>,
       <<TRUE, FALSE, TRUE>> >>

count_true_neighbor(neighbor_state, kernel_value) ==
    IF neighbor_state /\ kernel_value THEN 1 ELSE 0

(***************************************************************************)
(* rules.rs: the rules used by the automata of the main loop.  A rule is   *)
(* a record: its kernel and the parameters its next_state closure holds.   *)
(***************************************************************************)
\* Rules::game_of_life
game_of_life == [kind |-> "game_of_life", kernel |-> MOORE_NEIGHBORHOOD]

game_of_life_next_state(old_state, neighbors) ==
    \/ old_state /\ neighbors = 2
    \/ old_state /\ neighbors = 3
    \/ ~old_state /\ neighbors = 3

\* generate_neighbor_counts with draws that may insert nothing
generate_neighbor_counts_or_none(count) ==
    {s \in SUBSET (0 .. count) : Cardinality(s) <= count}

\* generate_neighbor_counts(count, rng): count draws from 0..=count, collected in a set
generate_neighbor_counts(count) ==
    {s \in SUBSET (0 .. count) : Cardinality(s) <= count /\ (count > 0 => s # {})}

\* Rules::generate_bb3 with its draws (is_moore, birth, survive) made
bb3(is_moore, birth, survive) ==
    [kind |-> "bb3",
     kernel |-> IF is_moore THEN MOORE_NEIGHBORHOOD ELSE NEUMANN_NEIGHBORHOOD,
     birth |-> birth,
     survive |-> survive]

bb3_next_state(rules, old_state, neighbors) ==
    \/ old_state /\ neighbors \in rules.survive
    \/ ~old_state /\ neighbors \in rules.birth

\* Rules::generate_u8b3 with its draws made
u8b3(is_moore, alive_threshold, birth, survive, add, sub) ==
    [kind |-> "u8b3",
     kernel |-> IF is_moore THEN MOORE_NEIGHBORHOOD ELSE NEUMANN_NEIGHBORHOOD,
     alive_threshold |-> alive_threshold,
     birth |-> birth,
     survive |-> survive,
     add |-> add,
     sub |-> sub]

u8b3_count_neighbor(state, kernel_value) == IF kernel_value THEN state ELSE 0

\* the closure of generate_u8b3; the division panics when alive_threshold is 0
u8b3_next_state_panics(rules) == rules.alive_threshold = 0

\* the same closure without the final clamp (the cast alone keeps the low 8 bits)
u8b3_next_state_unclamped(rules, old_state, neighbor_sum) ==
    LET neighbors == neighbor_sum \div rules.alive_threshold
        old_is_alive == old_state >= rules.alive_threshold
        new_is_alive == \/ old_is_alive /\ neighbors \in rules.survive
                        \/ ~old_is_alive /\ neighbors \in rules.birth
        delta == IF new_is_alive THEN rules.add ELSE -rules.sub
    IN  old_state + delta

u8b3_next_state(rules, old_state, neighbor_sum) ==
    LET neighbors == neighbor_sum \div rules.alive_threshold
        old_is_alive == old_state >= rules.alive_threshold
        new_is_alive == \/ old_is_alive /\ neighbors \in rules.survive
                        \/ ~old_is_alive /\ neighbors \in rules.birth
        delta == IF new_is_alive THEN rules.add ELSE -rules.sub
    IN  Clamp(old_state + delta, 0, U8Max)

(***************************************************************************)
(* The stepper the main loop calls (`Game { rules, field }.step()`): for   *)
(* every cell the neighbour sum over the kernel, the centre and the        *)
(* offsets outside the grid skipped, then next_state of the old state and  *)
(* the sum, all read from the current grid.                                *)
(***************************************************************************)
CountNeighbor(rules, neighbor_state, kernel_value) ==
    IF rules.kind = "u8b3"
    THEN u8b3_count_neighbor(neighbor_state, kernel_value)
    ELSE count_true_neighbor(neighbor_state, kernel_value)

NextState(rules, old_state, neighbor_sum) ==
    CASE rules.kind = "game_of_life" -> game_of_life_next_state(old_state, neighbor_sum)
      [] rules.kind = "bb3" -> bb3_next_state(rules, old_state, neighbor_sum)
      [] rules.kind = "u8b3" -> u8b3_next_state(rules, old_state, neighbor_sum)

\* the contribution of the kernel offset (dx, dy): nothing when it falls outside the grid
Contribution(rules, field, x, y, dx, dy) ==
    IF InBounds(field, x + dx, y + dy)
    THEN CountNeighbor(rules, Get(field, x + dx, y + dy), rules.kernel[dy + 2][dx + 2])
    ELSE 0

\* the sum over the kernel offsets, the centre left out
NeighborSum(rules, field, x, y) ==
      Contribution(rules, field, x, y, -1, -1) + Contribution(rules, field, x, y, 0, -1)
    + Contribution(rules, field, x, y, 1, -1) + Contribution(rules, field, x, y, -1, 0)
    + Contribution(rules, field, x, y, 1, 0) + Contribution(rules, field, x, y, -1, 1)
    + Contribution(rules, field, x, y, 0, 1) + Contribution(rules, field, x, y, 1, 1)

StepPanics(automaton) ==
    automaton.rules.kind = "u8b3" /\ u8b3_next_state_panics(automaton.rules)

Step(automaton) ==
    LET field == automaton.field
        rules == automaton.rules
    IN  [automaton EXCEPT !.field.cells =
            [c \in Cells(field.width, field.height) |->
                NextState(rules, field.cells[c], NeighborSum(rules, field, c[1], c[2]))]]

(***************************************************************************)
(* game.rs: Game { field: PixelGrid, luma: ByteGrid }                      *)
(***************************************************************************)
\* for nx in x - 1..=x + 1 { for ny in y - 1..=y + 1 { .. } }
NeighborLoop ==
    << <<-1, -1>>, <<-1, 0>>, <<-1, 1>>,
       <<0, -1>>, <<0, 0>>, <<0, 1>>,
       <<1, -1>>, <<1, 0>>, <<1, 1>> >>

RECURSIVE CountLoop(_, _, _, _, _)
CountLoop(field, x, y, offsets, count) ==
    IF offsets = <<>> THEN count
    ELSE LET nx == x + Head(offsets)[1]
             ny == y + Head(offsets)[2]
             rest == Tail(offsets)
         IN  IF nx = x /\ ny = y
             THEN CountLoop(field, x, y, rest, count)
             ELSE IF nx < 0 \/ ny < 0 \/ nx >= field.width \/ ny >= field.height
             THEN CountLoop(field, x, y, rest, count)
             ELSE IF ~Get(field, nx, ny)
             THEN CountLoop(field, x, y, rest, count)
             ELSE CountLoop(field, x, y, rest, count + 1)

\* count_neighbors on a torus: the offsets outside the grid wrap around
RECURSIVE CountLoopWrapping(_, _, _, _, _)
CountLoopWrapping(field, x, y, offsets, count) ==
    IF offsets = <<>> THEN count
    ELSE LET nx == (x + Head(offsets)[1]) % field.width
             ny == (y + Head(offsets)[2]) % field.height
             rest == Tail(offsets)
         IN  IF Head(offsets) = <<0, 0>>
             THEN CountLoopWrapping(field, x, y, rest, count)
             ELSE IF ~Get(field, nx, ny)
             THEN CountLoopWrapping(field, x, y, rest, count)
             ELSE CountLoopWrapping(field, x, y, rest, count + 1)

count_neighbors_wrapping(field, x, y) == CountLoopWrapping(field, x, y, NeighborLoop, 0)

\* count_neighbors without the skip of the cell itself
RECURSIVE CountLoopWithSelf(_, _, _, _, _)
CountLoopWithSelf(field, x, y, offsets, count) ==
    IF offsets = <<>> THEN count
    ELSE LET nx == x + Head(offsets)[1]
             ny == y + Head(offsets)[2]
             rest == Tail(offsets)
         IN  IF nx < 0 \/ ny < 0 \/ nx >= field.width \/ ny >= field.height
             THEN CountLoopWithSelf(field, x, y, rest, count)
             ELSE IF ~Get(field, nx, ny)
             THEN CountLoopWithSelf(field, x, y, rest, count)
             ELSE CountLoopWithSelf(field, x, y, rest, count + 1)

count_neighbors_with_self(field, x, y) == CountLoopWithSelf(field, x, y, NeighborLoop, 0)

count_neighbors(field, x, y) == CountLoop(field, x, y, NeighborLoop, 0)

\* the loop of field_iteration over the cells in `order`: reads `field`, writes `next`
RECURSIVE FieldLoop(_, _, _)
FieldLoop(field, next, order) ==
    IF order = <<>> THEN next
    ELSE LET x == Head(order)[1]
             y == Head(order)[2]
             old_state == Get(field, x, y)
             neighbors == count_neighbors(field, x, y)
             new_state == \/ old_state /\ neighbors = 2
                          \/ old_state /\ neighbors = 3
                          \/ ~old_state /\ neighbors = 3
         IN  FieldLoop(field, Set(next, x, y, new_state), Tail(order))

\* the same loop updating the grid it reads
RECURSIVE FieldLoopInPlace(_, _)
FieldLoopInPlace(field, order) ==
    IF order = <<>> THEN field
    ELSE LET x == Head(order)[1]
             y == Head(order)[2]
             old_state == Get(field, x, y)
             neighbors == count_neighbors(field, x, y)
             new_state == \/ old_state /\ neighbors = 2
                          \/ old_state /\ neighbors = 3
                          \/ ~old_state /\ neighbors = 3
         IN  FieldLoopInPlace(Set(field, x, y, new_state), Tail(order))

field_iteration_in_place(field) == FieldLoopInPlace(field, XMajorOrder(field))

field_iteration(field) == FieldLoop(field, field, XMajorOrder(field))

\* luma_iteration with its draws made: the window and one delta per cell of it
RECURSIVE LumaLoop(_, _, _, _)
LumaLoop(luma, new_luma, order, deltas) ==
    IF order = <<>> THEN new_luma
    ELSE LET x == Head(order)[1]
             y == Head(order)[2]
             old_value == Get(luma, x, y)
             new_value == Clamp(old_value + deltas[Head(order)], 0, U8Max)
         IN  LumaLoop(luma, Set(new_luma, x, y, new_value), Tail(order), deltas)

\* for inner_y in 0..h { for inner_x in 0..w { .. } }
RECURSIVE RowFrom(_, _, _)
RowFrom(x, y, x_end) == IF x >= x_end THEN <<>> ELSE <<<<x, y>>>> \o RowFrom(x + 1, y, x_end)

RECURSIVE WindowFrom(_, _, _, _)
WindowFrom(window_x, y, w, y_end) ==
    IF y >= y_end THEN <<>>
    ELSE RowFrom(window_x, y, window_x + w) \o WindowFrom(window_x, y + 1, w, y_end)

WindowOrder(window_x, window_y, w, h) == WindowFrom(window_x, window_y, w, window_y + h)

WindowCells(window_x, window_y, w, h) ==
    (window_x .. window_x + w - 1) \X (window_y .. window_y + h - 1)

luma_iteration(luma, window_x, window_y, w, h, deltas) ==
    LumaLoop(luma, luma, WindowOrder(window_x, window_y, w, h), deltas)

(***************************************************************************)
(* main.rs: frame merge                                                    *)
(***************************************************************************)
\* draw_pixels without the seam column
draw_pixels_no_seam(pixels, left, right, split_index) ==
    [pixels EXCEPT !.cells =
        [c \in Cells(pixels.width, pixels.height) |->
            LET left_or_right == IF c[1] < split_index THEN left ELSE right
            IN  Get(left_or_right, c[1], c[2])]]

draw_pixels(pixels, left, right, split_index) ==
    [pixels EXCEPT !.cells =
        [c \in Cells(pixels.width, pixels.height) |->
            LET left_or_right == IF c[1] < split_index THEN left ELSE right
            IN  c[1] = split_index \/ Get(left_or_right, c[1], c[2])]]

BrightnessFloor == 48

BrightnessScale == 12

\* `set as f32 / u8::MAX as f32 * 12f32` cast back to u8: for each of the 256
\* byte values the f32 result truncates to the integer quotient below
ScaleLuma(value) == (MaxOf(BrightnessFloor, value) * BrightnessScale) \div U8Max

\* draw_luma taking every column from the right grid
draw_luma_right_only(luma, left, right, split_tile) ==
    [luma EXCEPT !.cells =
        [c \in Cells(luma.width, luma.height) |-> ScaleLuma(Get(right, c[1], c[2]))]]

draw_luma(luma, left, right, split_tile) ==
    [luma EXCEPT !.cells =
        [c \in Cells(luma.width, luma.height) |->
            LET left_or_right == IF c[1] < split_tile THEN left ELSE right
            IN  ScaleLuma(Get(left_or_right, c[1], c[2]))]]

(***************************************************************************)
(* main.rs: randomize, and the draws of the random generator the model     *)
(* follows: one filling per grid type and two rules per rule type.         *)
(***************************************************************************)
PixelDraws(w, h) == { [c \in Cells(w, h) |-> (c[1] + c[2]) % 3 = 0] }

ByteDraws(w, h) == { [c \in Cells(w, h) |-> IF (c[1] + c[2]) % 2 = 0 THEN 250 ELSE 3] }

\* randomize(field) with the values the generator returned
randomize(field, values) == [field EXCEPT !.cells = values]

Bb3Draws == { bb3(TRUE, {2, 3}, {1, 2, 3}), bb3(FALSE, {1}, {1, 2}) }

U8b3Draws ==
    { u8b3(TRUE, 128, {1, 2}, {2, 3}, 39, 5),
      u8b3(FALSE, 60, {0, 1}, {1}, 5, 39),
      u8b3(TRUE, 0, {3}, {2, 3}, 20, 20) }

\* the draws of one swap/reseed: randomize twice, generate_bb3, generate_u8b3
Reseeds(pixel_field, luma_field) ==
    [pixels : PixelDraws(pixel_field.width, pixel_field.height),
     luma : ByteDraws(luma_field.width, luma_field.height),
     bb3 : Bb3Draws,
     u8b3 : U8b3Draws]

(***************************************************************************)
(* Bounds of the exploration                                               *)
(***************************************************************************)
\* a run without input is followed for PixelWidth + ExtraTicks ticks
ExtraTicks == 2

QuietTicks == PixelWidth + ExtraTicks

\* a run with the divider keys is followed for DividerTicks ticks
DividerTicks == 11

\* a run with every kind of input and send failures is followed for LoopTicks ticks
LoopTicks == 2

\* events drained in one tick
MaxDrain == 2

\* |split_speed| reached by the accelerate/decelerate events
MaxSpeed == 2

\* milliseconds target_duration moves away from FRAME_PACING
MaxPacingChange == 1

FRAME_PACING == 30

IterationModulus == 256

LumaPeriod == 10

(***************************************************************************)
(* State                                                                   *)
(***************************************************************************)
VARIABLES
    left_pixels,      \* Game { rules, field }: the automaton in the left pixel role
    right_pixels,
    left_luma,
    right_luma,
    pixels,           \* the merged pixel frame
    luma,             \* the merged brightness frame
    split_pixel,
    split_speed,
    iteration,        \* Wrapping<u8>
    target_duration,  \* milliseconds
    pc,               \* "tick", "poll" (draining input), "closed", "panicked" (a step
                      \* panicked), "send_failed" (send_to_screen panicked)
    drained,          \* events read in the current drain
    sent,             \* frames sent by the last tick
    ticks,            \* ticks done
    swaps,            \* swap/reseed events done
    swapped,          \* what the last tick did: "none", "reseed_left", "reseed_right"
    unclamped,        \* `split_pixel as i32 + split_speed` of the last tick, before the clamp
    last_key,         \* the key of the last press read in the current drain
    game,             \* game.rs: Game { field, luma }
    steps,            \* calls of Game::step done
    luma_steps,       \* of which ran luma_iteration
    twin,             \* a second Game, started in the state of `game`
    synth,            \* the rule the synthesizer returned last
    applied           \* the last application of a preset's next_state

main_vars ==
    <<left_pixels, right_pixels, left_luma, right_luma, pixels, luma, split_pixel,
      split_speed, iteration, target_duration, pc, drained, sent, ticks, swaps, swapped, unclamped,
      last_key>>

game_vars == <<game, steps, luma_steps>>

rule_vars == <<twin, synth, applied>>

vars == <<main_vars, game_vars, rule_vars>>

\* PixelGrid::max_sized()
MaxSizedPixelGrid == NewGrid(PixelWidth, PixelHeight, FALSE)

\* ByteGrid::new(TILE_WIDTH, TILE_HEIGHT)
TileByteGrid == NewGrid(TileWidth, TileHeight, 0)

\* Game::default()
DefaultGame == [field |-> MaxSizedPixelGrid, luma |-> TileByteGrid]

\* main.rs 38..68: the four automata generated and randomized, the divider at rest
Init ==
    /\ left_pixels \in
         {[rules |-> r, field |-> randomize(MaxSizedPixelGrid, v)] :
            r \in Bb3Draws, v \in PixelDraws(PixelWidth, PixelHeight)}
    /\ right_pixels \in
         {[rules |-> r, field |-> randomize(MaxSizedPixelGrid, v)] :
            r \in Bb3Draws, v \in PixelDraws(PixelWidth, PixelHeight)}
    /\ left_luma \in
         {[rules |-> r, field |-> randomize(TileByteGrid, v)] :
            r \in U8b3Draws, v \in ByteDraws(TileWidth, TileHeight)}
    /\ right_luma \in
         {[rules |-> r, field |-> randomize(TileByteGrid, v)] :
            r \in U8b3Draws, v \in ByteDraws(TileWidth, TileHeight)}
    /\ pixels = MaxSizedPixelGrid
    /\ luma = TileByteGrid
    /\ split_pixel = 0
    /\ split_speed = 1
    /\ iteration = 0
    /\ target_duration = FRAME_PACING
    /\ pc = "tick"
    /\ drained = 0
    /\ sent = 0
    /\ ticks = 0
    /\ swaps = 0
    /\ swapped = "none"
    /\ unclamped = 0
    /\ last_key = "none"
    /\ game = DefaultGame
    /\ steps = 0
    /\ luma_steps = 0
    /\ twin = DefaultGame
    /\ synth = [kind |-> "none"]
    /\ applied = [kind |-> "none"]

(***************************************************************************)
(* main.rs 70..120: one pass of the loop up to the input drain             *)
(***************************************************************************)
SendOutcomes == {"ok", "pixels_failed", "brightness_failed"}

\* lines 83..103 without the exchange of the brightness automata
SwapAndReseedPixelsOnly(lp, rp, ll, rl, swap_right, swap_left, reseed) ==
    IF swap_right
    THEN [left_pixels |-> [rules |-> reseed.bb3, field |-> randomize(rp.field, reseed.pixels)],
          right_pixels |-> lp,
          left_luma |-> [rules |-> reseed.u8b3, field |-> randomize(ll.field, reseed.luma)],
          right_luma |-> rl]
    ELSE IF swap_left
    THEN [left_pixels |-> rp,
          right_pixels |-> [rules |-> reseed.bb3, field |-> randomize(lp.field, reseed.pixels)],
          left_luma |-> ll,
          right_luma |-> [rules |-> reseed.u8b3, field |-> randomize(rl.field, reseed.luma)]]
    ELSE [left_pixels |-> lp, right_pixels |-> rp, left_luma |-> ll, right_luma |-> rl]

\* lines 83..103: the automata after the (possible) exchange and reseed
SwapAndReseed(lp, rp, ll, rl, swap_right, swap_left, reseed) ==
    IF swap_right
    THEN [left_pixels |-> [rules |-> reseed.bb3, field |-> randomize(rp.field, reseed.pixels)],
          right_pixels |-> lp,
          left_luma |-> [rules |-> reseed.u8b3, field |-> randomize(rl.field, reseed.luma)],
          right_luma |-> ll]
    ELSE IF swap_left
    THEN [left_pixels |-> rp,
          right_pixels |-> [rules |-> reseed.bb3, field |-> randomize(lp.field, reseed.pixels)],
          left_luma |-> rl,
          right_luma |-> [rules |-> reseed.u8b3, field |-> randomize(ll.field, reseed.luma)]]
    ELSE [left_pixels |-> lp, right_pixels |-> rp, left_luma |-> ll, right_luma |-> rl]

\* the index reset at an edge also when the divider is at rest
ResetDividerAtRest(index, speed, width) ==
    IF speed >= 0 /\ index = width THEN 0
    ELSE IF speed <= 0 /\ index = 0 THEN width
    ELSE index

\* lines 83..84 and 93..94: the index reset at the edge the divider has reached
ResetDivider(index, speed, width) ==
    IF speed > 0 /\ index = width THEN 0
    ELSE IF speed < 0 /\ index = 0 THEN width
    ELSE index

\* the divider left on the index it was reset to in the tick of a swap
MoveDividerFromEdge(index, speed, width) ==
    IF ResetDivider(index, speed, width) # index
    THEN ResetDivider(index, speed, width)
    ELSE Clamp(index + speed, 0, width)

\* the move without the clamp
MoveDividerNoClamp(index, speed, width) == ResetDivider(index, speed, width) + speed

\* lines 105..106, after the reset: the index moved by the speed and clamped
MoveDivider(index, speed, width) ==
    Clamp(ResetDivider(index, speed, width) + speed, 0, width)

\* the brightness automata stepped in every tick
LumaDueEveryTick == iteration % 1 = 0

\* line 76: iteration % Wrapping(10) == Wrapping(0)
LumaDue == iteration % LumaPeriod = 0

\* the loop body with the frames drawn first, from the automata and the index as
\* the previous tick left them
TickDrawsBeforeStep(limit, outcomes) ==
    /\ pc = "tick"
    /\ ticks < limit
    /\ LET lp == Step(left_pixels)
           rp == Step(right_pixels)
       IN  IF LumaDue /\ (StepPanics(left_luma) \/ StepPanics(right_luma))
           THEN /\ left_pixels' = lp
                /\ right_pixels' = rp
                /\ left_luma' = IF StepPanics(left_luma) THEN left_luma ELSE Step(left_luma)
                /\ pc' = "panicked"
                /\ UNCHANGED <<right_luma, pixels, luma, split_pixel, split_speed, iteration,
                               target_duration, drained, sent, ticks, swaps, swapped, unclamped,
                               last_key>>
           ELSE LET ll == IF LumaDue THEN Step(left_luma) ELSE left_luma
                    rl == IF LumaDue THEN Step(right_luma) ELSE right_luma
                    swap_right == split_speed > 0 /\ split_pixel = pixels.width
                    swap_left == ~swap_right /\ split_speed < 0 /\ split_pixel = 0
                    draws == IF swap_right \/ swap_left
                             THEN Reseeds(lp.field, ll.field)
                             ELSE {[pixels |-> lp.field.cells, luma |-> ll.field.cells,
                                    bb3 |-> lp.rules, u8b3 |-> ll.rules]}
                    split == MoveDivider(split_pixel, split_speed, pixels.width)
               IN  \E reseed \in draws, outcome \in outcomes :
                      LET after == SwapAndReseed(lp, rp, ll, rl, swap_right, swap_left, reseed)
                      IN  /\ left_pixels' = after.left_pixels
                          /\ right_pixels' = after.right_pixels
                          /\ left_luma' = after.left_luma
                          /\ right_luma' = after.right_luma
                          /\ iteration' = (iteration + 1) % IterationModulus
                          /\ split_pixel' = split
                          /\ pixels' = draw_pixels(pixels, left_pixels.field,
                                                   right_pixels.field, split_pixel)
                          /\ luma' = draw_luma(luma, left_luma.field,
                                               right_luma.field, split_pixel \div TileSize)
                          /\ sent' = CASE outcome = "ok" -> 2
                                       [] outcome = "pixels_failed" -> 0
                                       [] outcome = "brightness_failed" -> 1
                          /\ pc' = IF outcome = "ok" THEN "poll" ELSE "send_failed"
                          /\ swapped' = IF swap_right THEN "reseed_left"
                                        ELSE IF swap_left THEN "reseed_right" ELSE "none"
                          /\ swaps' = IF swap_right \/ swap_left THEN swaps + 1 ELSE swaps
                          /\ ticks' = IF outcome = "ok" THEN ticks + 1 ELSE ticks
                          /\ unclamped' = ResetDivider(split_pixel, split_speed, pixels.width)
                                           + split_speed
                          /\ drained' = 0
                          /\ UNCHANGED <<split_speed, target_duration, last_key>>
    /\ UNCHANGED <<game_vars, rule_vars>>

\* the loop body in the order of the source
Tick(limit, outcomes) ==
    /\ pc = "tick"
    /\ ticks < limit
    /\ LET lp == Step(left_pixels)
           rp == Step(right_pixels)
       IN  IF LumaDue /\ (StepPanics(left_luma) \/ StepPanics(right_luma))
           THEN /\ left_pixels' = lp
                /\ right_pixels' = rp
                /\ left_luma' = IF StepPanics(left_luma) THEN left_luma ELSE Step(left_luma)
                /\ pc' = "panicked"
                /\ UNCHANGED <<right_luma, pixels, luma, split_pixel, split_speed, iteration,
                               target_duration, drained, sent, ticks, swaps, swapped, unclamped,
                               last_key>>
           ELSE LET ll == IF LumaDue THEN Step(left_luma) ELSE left_luma
                    rl == IF LumaDue THEN Step(right_luma) ELSE right_luma
                    swap_right == split_speed > 0 /\ split_pixel = pixels.width
                    swap_left == ~swap_right /\ split_speed < 0 /\ split_pixel = 0
                    draws == IF swap_right \/ swap_left
                             THEN Reseeds(lp.field, ll.field)
                             ELSE {[pixels |-> lp.field.cells, luma |-> ll.field.cells,
                                    bb3 |-> lp.rules, u8b3 |-> ll.rules]}
                    split == MoveDivider(split_pixel, split_speed, pixels.width)
               IN  \E reseed \in draws, outcome \in outcomes :
                      LET after == SwapAndReseed(lp, rp, ll, rl, swap_right, swap_left, reseed)
                      IN  /\ left_pixels' = after.left_pixels
                          /\ right_pixels' = after.right_pixels
                          /\ left_luma' = after.left_luma
                          /\ right_luma' = after.right_luma
                          /\ iteration' = (iteration + 1) % IterationModulus
                          /\ split_pixel' = split
                          /\ pixels' = draw_pixels(pixels, after.left_pixels.field,
                                                   after.right_pixels.field, split)
                          /\ luma' = draw_luma(luma, after.left_luma.field,
                                               after.right_luma.field, split \div TileSize)
                          /\ sent' = CASE outcome = "ok" -> 2
                                       [] outcome = "pixels_failed" -> 0
                                       [] outcome = "brightness_failed" -> 1
                          /\ pc' = IF outcome = "ok" THEN "poll" ELSE "send_failed"
                          /\ swapped' = IF swap_right THEN "reseed_left"
                                        ELSE IF swap_left THEN "reseed_right" ELSE "none"
                          /\ swaps' = IF swap_right \/ swap_left THEN swaps + 1 ELSE swaps
                          /\ ticks' = IF outcome = "ok" THEN ticks + 1 ELSE ticks
                          /\ unclamped' = ResetDivider(split_pixel, split_speed, pixels.width)
                                           + split_speed
                          /\ drained' = 0
                          /\ UNCHANGED <<split_speed, target_duration, last_key>>
    /\ UNCHANGED <<game_vars, rule_vars>>

(***************************************************************************)
(* main.rs 122..163: the input drain.  One action per AppEvent; the key    *)
(* that produces it is the one AppEvent::try_from maps to it.              *)
(***************************************************************************)
Keys == {"h", "q", "d", "e", "f", "r", "Right", "Left", "Up", "Down", "x"}

\* AppEvent::try_from for a key press
try_from(key) ==
    CASE key = "h" -> "Err"
      [] key = "q" -> "Close"
      [] key = "d" -> "RandomizeLeftPixels"
      [] key = "e" -> "RandomizeLeftLuma"
      [] key = "f" -> "RandomizeRightPixels"
      [] key = "r" -> "RandomizeRightLuma"
      [] key = "Right" -> "SeparatorAccelerate"
      [] key = "Left" -> "SeparatorDecelerate"
      [] key = "Up" -> "SimulationSpeedUp"
      [] key = "Down" -> "SimulationSpeedDown"
      [] OTHER -> "Err"

\* event::poll returned true and event::read returned a press that maps to `event`
Read(event) ==
    /\ pc = "poll"
    /\ drained < MaxDrain
    /\ \E pressed \in Keys :
          /\ try_from(pressed) = event
          /\ last_key' = pressed
    /\ drained' = drained + 1

Ignored ==
    /\ Read("Err")
    /\ UNCHANGED <<left_pixels, right_pixels, left_luma, right_luma, pixels, luma, split_pixel,
                   split_speed, iteration, target_duration, pc, sent, ticks, swaps, swapped, unclamped>>
    /\ UNCHANGED <<game_vars, rule_vars>>

\* the event with the rules of the automaton generated anew as well
RandomizeLeftPixelsAndRules ==
    /\ Read("RandomizeLeftPixels")
    /\ \E values \in PixelDraws(left_pixels.field.width, left_pixels.field.height),
          rules \in Bb3Draws :
          left_pixels' = [rules |-> rules, field |-> randomize(left_pixels.field, values)]
    /\ UNCHANGED <<right_pixels, left_luma, right_luma, pixels, luma, split_pixel,
                   split_speed, iteration, target_duration, pc, sent, ticks, swaps, swapped, unclamped>>
    /\ UNCHANGED <<game_vars, rule_vars>>

RandomizeLeftPixels ==
    /\ Read("RandomizeLeftPixels")
    /\ \E values \in PixelDraws(left_pixels.field.width, left_pixels.field.height) :
          left_pixels' = [left_pixels EXCEPT !.field = randomize(@, values)]
    /\ UNCHANGED <<right_pixels, left_luma, right_luma, pixels, luma, split_pixel,
                   split_speed, iteration, target_duration, pc, sent, ticks, swaps, swapped, unclamped>>
    /\ UNCHANGED <<game_vars, rule_vars>>

RandomizeRightPixels ==
    /\ Read("RandomizeRightPixels")
    /\ \E values \in PixelDraws(right_pixels.field.width, right_pixels.field.height) :
          right_pixels' = [right_pixels EXCEPT !.field = randomize(@, values)]
    /\ UNCHANGED <<left_pixels, left_luma, right_luma, pixels, luma, split_pixel,
                   split_speed, iteration, target_duration, pc, sent, ticks, swaps, swapped, unclamped>>
    /\ UNCHANGED <<game_vars, rule_vars>>

RandomizeLeftLuma ==
    /\ Read("RandomizeLeftLuma")
    /\ \E values \in ByteDraws(left_luma.field.width, left_luma.field.height) :
          left_luma' = [left_luma EXCEPT !.field = randomize(@, values)]
    /\ UNCHANGED <<left_pixels, right_pixels, right_luma, pixels, luma, split_pixel,
                   split_speed, iteration, target_duration, pc, sent, ticks, swaps, swapped, unclamped>>
    /\ UNCHANGED <<game_vars, rule_vars>>

RandomizeRightLuma ==
    /\ Read("RandomizeRightLuma")
    /\ \E values \in ByteDraws(right_luma.field.width, right_luma.field.height) :
          right_luma' = [right_luma EXCEPT !.field = randomize(@, values)]
    /\ UNCHANGED <<left_pixels, right_pixels, left_luma, pixels, luma, split_pixel,
                   split_speed, iteration, target_duration, pc, sent, ticks, swaps, swapped, unclamped>>
    /\ UNCHANGED <<game_vars, rule_vars>>

SeparatorAccelerate ==
    /\ Read("SeparatorAccelerate")
    /\ split_speed < MaxSpeed
    /\ split_speed' = split_speed + 1
    /\ UNCHANGED <<left_pixels, right_pixels, left_luma, right_luma, pixels, luma, split_pixel,
                   iteration, target_duration, pc, sent, ticks, swaps, swapped, unclamped>>
    /\ UNCHANGED <<game_vars, rule_vars>>

SeparatorDecelerate ==
    /\ Read("SeparatorDecelerate")
    /\ split_speed > -MaxSpeed
    /\ split_speed' = split_speed - 1
    /\ UNCHANGED <<left_pixels, right_pixels, left_luma, right_luma, pixels, luma, split_pixel,
                   iteration, target_duration, pc, sent, ticks, swaps, swapped, unclamped>>
    /\ UNCHANGED <<game_vars, rule_vars>>

Close ==
    /\ Read("Close")
    /\ pc' = "closed"
    /\ UNCHANGED <<left_pixels, right_pixels, left_luma, right_luma, pixels, luma, split_pixel,
                   split_speed, iteration, target_duration, sent, ticks, swaps, swapped, unclamped>>
    /\ UNCHANGED <<game_vars, rule_vars>>

\* Duration::saturating_sub(1 ms)
SimulationSpeedUp ==
    /\ Read("SimulationSpeedUp")
    /\ target_duration > FRAME_PACING - MaxPacingChange
    /\ target_duration' = IF target_duration >= 1 THEN target_duration - 1 ELSE 0
    /\ UNCHANGED <<left_pixels, right_pixels, left_luma, right_luma, pixels, luma, split_pixel,
                   split_speed, iteration, pc, sent, ticks, swaps, swapped, unclamped>>
    /\ UNCHANGED <<game_vars, rule_vars>>

\* Duration::saturating_add(1 ms)
SimulationSpeedDown ==
    /\ Read("SimulationSpeedDown")
    /\ target_duration < FRAME_PACING + MaxPacingChange
    /\ target_duration' = target_duration + 1
    /\ UNCHANGED <<left_pixels, right_pixels, left_luma, right_luma, pixels, luma, split_pixel,
                   split_speed, iteration, pc, sent, ticks, swaps, swapped, unclamped>>
    /\ UNCHANGED <<game_vars, rule_vars>>

\* the end of the drain in a loop that also goes on after a send has failed
EndDrainOrRetry ==
    /\ pc \in {"poll", "send_failed"}
    /\ pc' = "tick"
    /\ drained' = 0
    /\ last_key' = "none"
    /\ UNCHANGED <<left_pixels, right_pixels, left_luma, right_luma, pixels, luma, split_pixel,
                   split_speed, iteration, target_duration, sent, ticks, swaps, swapped, unclamped>>
    /\ UNCHANGED <<game_vars, rule_vars>>

\* event::poll returned false: the drain ends and the loop sleeps until the next tick
EndDrain ==
    /\ pc = "poll"
    /\ pc' = "tick"
    /\ drained' = 0
    /\ last_key' = "none"
    /\ UNCHANGED <<left_pixels, right_pixels, left_luma, right_luma, pixels, luma, split_pixel,
                   split_speed, iteration, target_duration, sent, ticks, swaps, swapped, unclamped>>
    /\ UNCHANGED <<game_vars, rule_vars>>

LoopTick == Tick(LoopTicks, SendOutcomes)

Next ==
    \/ LoopTick
    \/ Ignored
    \/ RandomizeLeftPixels
    \/ RandomizeRightPixels
    \/ RandomizeLeftLuma
    \/ RandomizeRightLuma
    \/ SeparatorAccelerate
    \/ SeparatorDecelerate
    \/ Close
    \/ SimulationSpeedUp
    \/ SimulationSpeedDown
    \/ EndDrain

Spec == Init /\ [][Next]_vars

\* the loop with no input event and a transport that accepts every frame
QuietTick == Tick(QuietTicks, {"ok"})

NextQuiet == QuietTick \/ EndDrain

SpecQuiet == Init /\ [][NextQuiet]_vars

\* the loop with the divider keys only and a transport that accepts every frame
DividerTick == Tick(DividerTicks, {"ok"})

NextDivider == DividerTick \/ SeparatorAccelerate \/ SeparatorDecelerate \/ EndDrain

SpecDivider == Init /\ [][NextDivider]_vars

(***************************************************************************)
(* game.rs: Game::step, applied to fields and brightness grids drawn from  *)
(* bounded sets.                                                           *)
(***************************************************************************)
KERNEL_SIZE == 3

\* width of the fields of which every filling is explored (their height is a kernel's)
SmallWidth == 3

\* size of the boards on which the 2x2 blocks are placed
BoardWidth == 4

BoardHeight == 4

\* calls of Game::step followed
MaxSteps == 5

\* of which may draw the 1-in-10 brightness iteration
MaxLumaSteps == 1

AllGrids(w, h) == {[width |-> w, height |-> h, cells |-> f] : f \in [Cells(w, h) -> BOOLEAN]}

BlockAt(w, h, bx, by) ==
    [width |-> w, height |-> h,
     cells |-> [c \in Cells(w, h) |-> c[1] \in {bx, bx + 1} /\ c[2] \in {by, by + 1}]]

BlockGrids(w, h) == {BlockAt(w, h, bx, by) : bx \in 0 .. w - 2, by \in 0 .. h - 2}

GameFields == AllGrids(SmallWidth, KERNEL_SIZE) \cup BlockGrids(BoardWidth, BoardHeight)

\* a brightness grid with cells at both ends of the byte range
GameLuma == [TileByteGrid EXCEPT !.cells = [c \in Cells(TileWidth, TileHeight) |->
                                               IF c[1] = 0 THEN 0 ELSE U8Max]]

\* rng.gen_range(-64..=64): the two ends
LumaDeltas == {-64, 64}

InitGame ==
    /\ game \in {[field |-> f, luma |-> GameLuma] : f \in GameFields}
    /\ steps = 0
    /\ luma_steps = 0
    /\ left_pixels = [rules |-> game_of_life, field |-> MaxSizedPixelGrid]
    /\ right_pixels = [rules |-> game_of_life, field |-> MaxSizedPixelGrid]
    /\ left_luma = [rules |-> CHOOSE r \in U8b3Draws : TRUE, field |-> TileByteGrid]
    /\ right_luma = [rules |-> CHOOSE r \in U8b3Draws : TRUE, field |-> TileByteGrid]
    /\ pixels = MaxSizedPixelGrid
    /\ luma = TileByteGrid
    /\ split_pixel = 0
    /\ split_speed = 1
    /\ iteration = 0
    /\ target_duration = FRAME_PACING
    /\ pc = "closed"
    /\ drained = 0
    /\ sent = 0
    /\ ticks = 0
    /\ swaps = 0
    /\ swapped = "none"
    /\ unclamped = 0
    /\ last_key = "none"
    /\ twin = DefaultGame
    /\ synth = [kind |-> "none"]
    /\ applied = [kind |-> "none"]

\* Game::step: field_iteration, then with probability 1/10 luma_iteration
GameStep ==
    /\ steps < MaxSteps
    /\ steps' = steps + 1
    /\ LET next_field == field_iteration(game.field)
       IN  \/ /\ game' = [game EXCEPT !.field = next_field]
              /\ UNCHANGED luma_steps
           \/ /\ luma_steps < MaxLumaSteps
              /\ luma_steps' = luma_steps + 1
              /\ \E window_x \in 0 .. TileWidth - 2, window_y \in 0 .. TileHeight - 2 :
                   \E w \in 1 .. TileWidth - window_x, h \in 1 .. TileHeight - window_y :
                     \E deltas \in [WindowCells(window_x, window_y, w, h) -> LumaDeltas] :
                        game' = [field |-> next_field,
                                 luma |-> luma_iteration(game.luma, window_x, window_y,
                                                         w, h, deltas)]
    /\ UNCHANGED <<main_vars, rule_vars>>

NextGame == GameStep

SpecGame == InitGame /\ [][NextGame]_vars

(***************************************************************************)
(* Claims about the divider and the frame merge (main.rs)                  *)
(***************************************************************************)

\* C1, as stated: from index 0 and velocity +1, with no input, after exactly
\* PixelWidth ticks one swap/reseed has happened and the divider index is 0.
C1_SwapAfterWidthTicks ==
    ticks = pixels.width => swaps = 1 /\ split_pixel = 0

\* C1, amended: from index 0 and velocity +1, with no input, the index after tick
\* n <= width is n and no swap has happened; the swap/reseed happens in tick
\* width + 1, which leaves exactly one swap done and the index on 1.
C1_SwapInTickAfterWidth ==
    /\ ticks <= pixels.width => swaps = 0 /\ split_pixel = ticks
    /\ ticks = pixels.width + 1 => swaps = 1 /\ split_pixel = 1

C1_Witness ==
    ticks = pixels.width + 1 /\ swaps = 1 /\ swapped = "reseed_left" /\ pc = "poll"

\* C2: after a tick the pixel frame is the left grid in the columns before the
\* divider index, the right grid in the columns after it, and TRUE in the column
\* of the divider index.
C2_DrawPixels ==
    pc = "poll" =>
        \A c \in Cells(pixels.width, pixels.height) :
            /\ c[1] < split_pixel => pixels.cells[c] = left_pixels.field.cells[c]
            /\ c[1] > split_pixel => pixels.cells[c] = right_pixels.field.cells[c]
            /\ c[1] = split_pixel => pixels.cells[c] = TRUE

\* a frame whose left part shows a cell of the left grid that differs from the right
\* grid, whose right part shows one of the right grid that differs from the left
\* grid, and whose seam covers a dead cell
C2_Witness ==
    /\ pc = "poll"
    /\ \E c \in Cells(pixels.width, pixels.height) :
          /\ c[1] < split_pixel
          /\ left_pixels.field.cells[c] # right_pixels.field.cells[c]
    /\ \E c \in Cells(pixels.width, pixels.height) :
          /\ c[1] > split_pixel
          /\ left_pixels.field.cells[c] # right_pixels.field.cells[c]
    /\ \E c \in Cells(pixels.width, pixels.height) :
          /\ c[1] = split_pixel
          /\ ~left_pixels.field.cells[c]
          /\ ~right_pixels.field.cells[c]

\* the tile column at which the brightness frame is split
SplitTile == split_pixel \div TileSize

\* C3, as stated: the brightness frame is the left grid before the tile index
\* divider_index / tile_size, the right grid after it, and the maximum byte value
\* in the column of the tile index.
C3_DrawLumaWithSeam ==
    pc = "poll" =>
        \A c \in Cells(luma.width, luma.height) :
            /\ c[1] < SplitTile => luma.cells[c] = left_luma.field.cells[c]
            /\ c[1] > SplitTile => luma.cells[c] = right_luma.field.cells[c]
            /\ c[1] = SplitTile => luma.cells[c] = U8Max

\* C3, amended: the brightness frame takes the columns before the tile index from
\* the left grid and the columns from the tile index on (that column included, no
\* seam) from the right grid, every value v rescaled to the integer part of
\* max(48, v) * 12 / 255, a level in 2..12.
C3_DrawLumaScaled ==
    pc = "poll" =>
        \A c \in Cells(luma.width, luma.height) :
            LET source == IF c[1] < SplitTile THEN left_luma.field.cells[c]
                          ELSE right_luma.field.cells[c]
                raised == IF source < 48 THEN 48 ELSE source
            IN  /\ luma.cells[c] \in 2 .. 12
                /\ luma.cells[c] * 255 <= raised * 12
                /\ raised * 12 < (luma.cells[c] + 1) * 255

\* a frame with a left column and the column of the tile index, in both of which
\* the two grids give different levels
C3_Witness ==
    /\ pc = "poll"
    /\ \E c \in Cells(luma.width, luma.height) :
          /\ c[1] < SplitTile
          /\ ScaleLuma(left_luma.field.cells[c]) # ScaleLuma(right_luma.field.cells[c])
    /\ \E c \in Cells(luma.width, luma.height) :
          /\ c[1] = SplitTile
          /\ ScaleLuma(left_luma.field.cells[c]) # ScaleLuma(right_luma.field.cells[c])
          /\ right_luma.field.cells[c] # U8Max

\* the value sets a reseeded automaton is drawn from
FreshPixels(automaton) ==
    /\ automaton.rules \in Bb3Draws
    /\ automaton.field.cells \in PixelDraws(pixels.width, pixels.height)

FreshLuma(automaton) ==
    /\ automaton.rules \in U8b3Draws
    /\ automaton.field.cells \in ByteDraws(luma.width, luma.height)

\* C4: a tick that finds velocity > 0 and the index on width makes the old left
\* automaton, as stepped in this tick and with its rule, the new right one in the
\* pixel and in the brightness channel, and gives the new left one a fresh grid and
\* a fresh rule; a tick that finds velocity < 0 and the index on 0 does the mirror
\* image; any other tick only steps the four automata.
C4_SwapExchangesRoles ==
    [][(pc = "tick" /\ pc' = "poll") =>
          LET stepped_left_luma == IF LumaDue THEN Step(left_luma) ELSE left_luma
              stepped_right_luma == IF LumaDue THEN Step(right_luma) ELSE right_luma
          IN  IF split_speed > 0 /\ split_pixel = pixels.width
              THEN /\ right_pixels' = Step(left_pixels)
                   /\ right_luma' = stepped_left_luma
                   /\ FreshPixels(left_pixels')
                   /\ FreshLuma(left_luma')
              ELSE IF split_speed < 0 /\ split_pixel = 0
              THEN /\ left_pixels' = Step(right_pixels)
                   /\ left_luma' = stepped_right_luma
                   /\ FreshPixels(right_pixels')
                   /\ FreshLuma(right_luma')
              ELSE /\ left_pixels' = Step(left_pixels)
                   /\ right_pixels' = Step(right_pixels)
                   /\ left_luma' = stepped_left_luma
                   /\ right_luma' = stepped_right_luma
      ]_vars

\* the state after a swap at the right edge that followed one at the left edge, in
\* a tick that also stepped the brightness automata, the new right automata being
\* distinguishable from the new left ones
C4_Witness ==
    /\ pc = "poll"
    /\ swaps = 2
    /\ swapped = "reseed_left"
    /\ iteration % LumaPeriod = 1
    /\ right_pixels # left_pixels
    /\ right_luma # left_luma

\* C5, as stated: the tick that swaps at the left edge (velocity < 0, index 0)
\* ends with the divider index on width, and that is the index of its frame.
C5_LeftSwapEndsOnWidth ==
    (pc = "poll" /\ swapped = "reseed_right") => split_pixel = pixels.width

\* C5, amended: the tick that swaps at the left edge sets the index to width and
\* then moves it by the (negative) velocity, so it ends, and draws its frame, with
\* the index on max(0, width + velocity), which is below width.
C5_LeftSwapEndsBelowWidth ==
    (pc = "poll" /\ drained = 0 /\ swapped = "reseed_right") =>
        /\ split_speed < 0
        /\ split_pixel = MaxOf(0, pixels.width + split_speed)
        /\ split_pixel < pixels.width
        /\ \A y \in 0 .. pixels.height - 1 : pixels.cells[<<split_pixel, y>>]
        /\ \A c \in Cells(pixels.width, pixels.height) :
              c[1] < split_pixel => pixels.cells[c] = left_pixels.field.cells[c]

C5_Witness ==
    /\ pc = "poll"
    /\ drained = 0
    /\ swapped = "reseed_right"
    /\ split_speed = -MaxSpeed
    /\ split_pixel = pixels.width - MaxSpeed

\* C6: at the end of every tick, whatever the velocity, the divider index is in
\* 0 .. width and the brightness split index in 0 .. width / 8.
C6_DividerInRange ==
    /\ split_pixel \in 0 .. pixels.width
    /\ SplitTile \in 0 .. (pixels.width \div TileSize)
    /\ SplitTile \in 0 .. luma.width

\* a tick whose move left the range at the right edge and was clamped to width
C6_Witness ==
    /\ pc = "poll"
    /\ unclamped > pixels.width
    /\ split_pixel = pixels.width
    /\ SplitTile = luma.width

(***************************************************************************)
(* Claims about the Game of Life of game.rs                                *)
(***************************************************************************)
\* the live cells of the grid among the up to eight cells around (x, y)
LiveNeighbours(field, x, y) ==
    {n \in Cells(field.width, field.height) :
        /\ n # <<x, y>>
        /\ n[1] - x \in -1 .. 1
        /\ n[2] - y \in -1 .. 1
        /\ field.cells[n]}

OnEdgeX(field, x) == x = 0 \/ x = field.width - 1

OnEdgeY(field, y) == y = 0 \/ y = field.height - 1

\* C7: count_neighbors(x, y) is the number of live cells among the cells of the
\* grid around (x, y), (x, y) excluded, nothing wrapping around: at most 3 for a
\* corner cell, at most 5 for another edge cell, at most 8 for an interior cell.
C7_CountNeighbors ==
    \A c \in Cells(game.field.width, game.field.height) :
        LET count == count_neighbors(game.field, c[1], c[2])
            on_x == OnEdgeX(game.field, c[1])
            on_y == OnEdgeY(game.field, c[2])
        IN  /\ count = Cardinality(LiveNeighbours(game.field, c[1], c[2]))
            /\ on_x /\ on_y => count <= 3
            /\ on_x \/ on_y => count <= 5
            /\ count <= 8

\* a stepped grid with a corner cell, an edge cell and an interior cell, each with
\* as many live neighbours as its place allows bar one at most
C7_Witness ==
    /\ steps >= 1
    /\ \E c \in Cells(game.field.width, game.field.height) :
          /\ OnEdgeX(game.field, c[1]) /\ OnEdgeY(game.field, c[2])
          /\ count_neighbors(game.field, c[1], c[2]) = 3
    /\ \E c \in Cells(game.field.width, game.field.height) :
          /\ OnEdgeX(game.field, c[1]) # OnEdgeY(game.field, c[2])
          /\ count_neighbors(game.field, c[1], c[2]) >= 4
    /\ \E c \in Cells(game.field.width, game.field.height) :
          /\ ~OnEdgeX(game.field, c[1]) /\ ~OnEdgeY(game.field, c[2])
          /\ count_neighbors(game.field, c[1], c[2]) >= 6

\* every cell's next state from the old grid alone
SynchronousUpdate(field) ==
    [c \in Cells(field.width, field.height) |->
        LET neighbors == Cardinality(LiveNeighbours(field, c[1], c[2]))
        IN  \/ field.cells[c] /\ neighbors \in {2, 3}
            \/ ~field.cells[c] /\ neighbors = 3]

\* C8: a step of the pixel automaton gives every cell the value the rule yields
\* for the old value of the cell and the old values of its neighbours, and
\* visiting the cells in the opposite order gives the same grid.
C8_SynchronousStep ==
    [][steps' = steps + 1 =>
          /\ game'.field.cells = SynchronousUpdate(game.field)
          /\ game'.field =
                FieldLoop(game.field, game.field, Reversed(XMajorOrder(game.field)))
      ]_vars

\* after a step, a grid on which updating in place would give another result
C8_Witness ==
    /\ steps \in 1 .. MaxSteps - 1
    /\ field_iteration_in_place(game.field) # field_iteration(game.field)
    /\ field_iteration(game.field) # game.field

\* the live cells of the grid are the cells of one 2x2 block
IsBlock(field) ==
    \E bx \in 0 .. field.width - 2, by \in 0 .. field.height - 2 :
        field = BlockAt(field.width, field.height, bx, by)

\* C9: a step leaves a grid whose live cells are one 2x2 block, wherever the
\* block lies, as it is (so do five steps in a row), every cell of it being
\* kept by the Game-of-Life rule on its count of neighbours.
C9_BlockIsStill ==
    [][(steps' = steps + 1 /\ IsBlock(game.field)) =>
          /\ game'.field = game.field
          /\ \A c \in Cells(game.field.width, game.field.height) :
                game_of_life_next_state(game.field.cells[c],
                                        count_neighbors(game.field, c[1], c[2]))
                   = game.field.cells[c]
      ]_vars

\* five steps done on the board with the block in a corner
C9_Witness ==
    /\ steps = MaxSteps
    /\ steps >= 5
    /\ game.field = BlockAt(BoardWidth, BoardHeight, 0, 0)

(***************************************************************************)
(* The automata of main.rs and the Game of game.rs stepped side by side    *)
(***************************************************************************)
\* ticks followed: the brightness automata are stepped in the 1st and the 11th
AutomataTicks == 11

AutomataTick == Tick(AutomataTicks, {"ok"})

NextAutomata == AutomataTick \/ EndDrain \/ GameStep

SpecAutomata == Init /\ [][NextAutomata]_vars

ValidPixelGrid(grid, w, h) ==
    /\ grid.width = w
    /\ grid.height = h
    /\ DOMAIN grid.cells = Cells(w, h)
    /\ \A c \in Cells(w, h) : grid.cells[c] \in BOOLEAN

ValidByteGrid(grid, w, h) ==
    /\ grid.width = w
    /\ grid.height = h
    /\ DOMAIN grid.cells = Cells(w, h)
    /\ \A c \in Cells(w, h) : grid.cells[c] \in 0 .. U8Max

MainAtRest ==
    /\ left_pixels = [rules |-> game_of_life, field |-> MaxSizedPixelGrid]
    /\ right_pixels = [rules |-> game_of_life, field |-> MaxSizedPixelGrid]
    /\ left_luma = [rules |-> CHOOSE r \in U8b3Draws : TRUE, field |-> TileByteGrid]
    /\ right_luma = [rules |-> CHOOSE r \in U8b3Draws : TRUE, field |-> TileByteGrid]
    /\ pixels = MaxSizedPixelGrid
    /\ luma = TileByteGrid
    /\ split_pixel = 0
    /\ split_speed = 1
    /\ iteration = 0
    /\ target_duration = FRAME_PACING
    /\ pc = "closed"
    /\ drained = 0
    /\ sent = 0
    /\ ticks = 0
    /\ swaps = 0
    /\ swapped = "none"
    /\ unclamped = 0
    /\ last_key = "none"

\* luma_iteration for every window and every choice of deltas
LumaOutcomes(old_luma) ==
    UNION {UNION {{luma_iteration(old_luma, window_x, window_y, w, h, deltas) :
                      deltas \in [WindowCells(window_x, window_y, w, h) -> LumaDeltas]} :
                  w \in 1 .. TileWidth - window_x, h \in 1 .. TileHeight - window_y} :
           window_x \in 0 .. TileWidth - 2, window_y \in 0 .. TileHeight - 2}

\* a step that runs luma_iteration in place of field_iteration when its draw says so
StepOutcomesEitherOr(old_game, may_run_luma) ==
    {[old_game EXCEPT !.field = field_iteration(old_game.field)]}
        \cup (IF may_run_luma
              THEN {[old_game EXCEPT !.luma = l] : l \in LumaOutcomes(old_game.luma)}
              ELSE {})

\* Game::step for every outcome of its draws: field_iteration, then luma_iteration
\* if gen_ratio(1, 10) says so
StepOutcomes(old_game, may_run_luma) ==
    {[field |-> field_iteration(old_game.field), luma |-> l] :
        l \in {old_game.luma} \cup (IF may_run_luma THEN LumaOutcomes(old_game.luma) ELSE {})}

\* the fields the two runs start from
TwinFields == BlockGrids(BoardWidth, BoardHeight) \cup AllGrids(SmallWidth, TileHeight)

InitTwin ==
    /\ MainAtRest
    /\ game \in {[field |-> f, luma |-> GameLuma] : f \in TwinFields}
    /\ twin = game
    /\ steps = 0
    /\ luma_steps = 0
    /\ synth = [kind |-> "none"]
    /\ applied = [kind |-> "none"]

\* both Games make a step, each with draws of its own
TwinStep ==
    /\ steps < MaxSteps
    /\ steps' = steps + 1
    /\ game' \in StepOutcomes(game, luma_steps < MaxLumaSteps)
    /\ twin' \in StepOutcomes(twin, luma_steps < MaxLumaSteps)
    /\ luma_steps' = IF game'.luma # game.luma \/ twin'.luma # twin.luma
                     THEN luma_steps + 1 ELSE luma_steps
    /\ UNCHANGED <<main_vars, synth, applied>>

NextTwin == TwinStep

SpecTwin == InitTwin /\ [][NextTwin]_vars

max_neighbors(is_moore) == IF is_moore THEN 8 ELSE 4

\* generate_neighbor_counts(rng.gen_range(1..=max_neighbors), &mut rng)
NeighborCountDraws(is_moore) ==
    {s \in SUBSET (0 .. max_neighbors(is_moore)) :
        \E count \in 1 .. max_neighbors(is_moore) : s \in generate_neighbor_counts(count)}

\* rng.gen::<u8>() for alive_threshold: the two ends
ThresholdDraws == {0, U8Max}

\* rng.gen_range(5..40) for add and for sub: one end each
AddDraws == {5}

SubDraws == {39}

InitSynth ==
    /\ MainAtRest
    /\ game = DefaultGame
    /\ twin = DefaultGame
    /\ steps = 0
    /\ luma_steps = 0
    /\ synth = [kind |-> "none"]
    /\ applied = [kind |-> "none"]

\* synth = generate_bb3()
GenerateBb3 ==
    /\ synth.kind = "none"
    /\ \E is_moore \in BOOLEAN :
          \E birth \in NeighborCountDraws(is_moore), survive \in NeighborCountDraws(is_moore) :
             synth' = bb3(is_moore, birth, survive)
    /\ UNCHANGED <<main_vars, game_vars, twin, applied>>

\* synth = generate_u8b3()
GenerateU8b3 ==
    /\ synth.kind = "none"
    /\ \E is_moore \in BOOLEAN, alive_threshold \in ThresholdDraws :
          \E birth \in NeighborCountDraws(is_moore), survive \in NeighborCountDraws(is_moore) :
             \E add \in AddDraws, sub \in SubDraws :
                synth' = u8b3(is_moore, alive_threshold, birth, survive, add, sub)
    /\ UNCHANGED <<main_vars, game_vars, twin, applied>>

NextSynth == GenerateBb3 \/ GenerateU8b3

SpecSynth == InitSynth /\ [][NextSynth]_vars

\* C12: whatever generate_bb3 and generate_u8b3 draw, the birth set and the
\* survival set of the rule are non-empty and hold only numbers from 0 to
\* max_neighbors, 8 with the Moore kernel and 4 with the von Neumann kernel.
C12_NeighborCountsInRange ==
    synth.kind \in {"bb3", "u8b3"} =>
        /\ synth.kernel \in {MOORE_NEIGHBORHOOD, NEUMANN_NEIGHBORHOOD}
        /\ synth.birth # {}
        /\ synth.survive # {}
        /\ \A n \in synth.birth \cup synth.survive :
              /\ n >= 0
              /\ synth.kernel = MOORE_NEIGHBORHOOD => n <= 8
              /\ synth.kernel = NEUMANN_NEIGHBORHOOD => n <= 4

\* a von Neumann byte rule with the largest count in its birth set and a
\* survival set of one element
C12_Witness ==
    /\ synth.kind = "u8b3"
    /\ synth.kernel = NEUMANN_NEIGHBORHOOD
    /\ 4 \in synth.birth
    /\ Cardinality(synth.survive) = 1

\* C13: no rule generate_bb3 returns has 0 in its birth set.
C13_BirthExcludesZero ==
    synth.kind = "bb3" => 0 \notin synth.birth

(***************************************************************************)
(* rules.rs: the preset rules.  Each preset is a record naming its kernel, *)
(* and its next_state closure is an operator of the same name.             *)
(***************************************************************************)
\* Rules::high_life
high_life == [kind |-> "high_life", kernel |-> MOORE_NEIGHBORHOOD]

high_life_next_state(old_state, neighbors) ==
    \/ old_state /\ neighbors = 2
    \/ old_state /\ neighbors = 3
    \/ ~old_state /\ neighbors = 3
    \/ ~old_state /\ neighbors = 6

\* Rules::seeds
seeds == [kind |-> "seeds", kernel |-> MOORE_NEIGHBORHOOD]

seeds_next_state(state, neighbors) == ~state /\ neighbors = 2

\* Rules::day_and_night
day_and_night == [kind |-> "day_and_night", kernel |-> MOORE_NEIGHBORHOOD]

day_and_night_next_state(state, neighbors) ==
    CASE ~state /\ neighbors = 3 -> TRUE
      [] ~state /\ neighbors = 6 -> TRUE
      [] ~state /\ neighbors = 7 -> TRUE
      [] ~state /\ neighbors = 8 -> TRUE
      [] state /\ neighbors = 3 -> TRUE
      [] state /\ neighbors = 4 -> TRUE
      [] state /\ neighbors = 6 -> TRUE
      [] state /\ neighbors = 7 -> TRUE
      [] state /\ neighbors = 8 -> TRUE
      [] OTHER -> FALSE

\* Rules::mazecetric
mazecetric == [kind |-> "mazecetric", kernel |-> MOORE_NEIGHBORHOOD]

\* the match of mazecetric without its `(true, 0) => false` arm
mazecetric_next_state_below_five(state, neighbors) ==
    IF ~state /\ neighbors = 3 THEN TRUE
    ELSE IF state /\ neighbors < 5 THEN TRUE
    ELSE FALSE

\* the arms of the match are tried in order
mazecetric_next_state(state, neighbors) ==
    IF ~state /\ neighbors = 3 THEN TRUE
    ELSE IF state /\ neighbors = 0 THEN FALSE
    ELSE IF state /\ neighbors < 5 THEN TRUE
    ELSE FALSE

\* Rules::brians_brain and the constants of its body
ALIVE == U8Max
DYING == ALIVE \div 2
DEAD == 0

brians_brain == [kind |-> "brians_brain", kernel |-> MOORE_NEIGHBORHOOD]

brians_brain_count_neighbor(state, kernel_value) ==
    IF kernel_value /\ state = U8Max THEN 1 ELSE 0

\* the match of brians_brain without its `(ALIVE, _) => DYING` arm
brians_brain_next_state_no_dying(state, neighbors) ==
    IF state = DYING THEN DEAD
    ELSE IF state = DEAD /\ neighbors = 2 THEN ALIVE
    ELSE IF state > DYING THEN ALIVE ELSE DEAD

\* the arms of the match are tried in order
brians_brain_next_state(state, neighbors) ==
    IF state = ALIVE THEN DYING
    ELSE IF state = DYING THEN DEAD
    ELSE IF state = DEAD /\ neighbors = 2 THEN ALIVE
    ELSE IF state > DYING THEN ALIVE ELSE DEAD

\* the boolean presets of impl Rules<bool, bool, 3>
BooleanPresets == {game_of_life, high_life, seeds, day_and_night, mazecetric}

\* the call (rules.next_state)(old_state, neighbors) of a boolean preset
preset_next_state(rules, old_state, neighbors) ==
    CASE rules.kind = "game_of_life" -> game_of_life_next_state(old_state, neighbors)
      [] rules.kind = "high_life" -> high_life_next_state(old_state, neighbors)
      [] rules.kind = "seeds" -> seeds_next_state(old_state, neighbors)
      [] rules.kind = "day_and_night" -> day_and_night_next_state(old_state, neighbors)
      [] rules.kind = "mazecetric" -> mazecetric_next_state(old_state, neighbors)

\* the neighbour counts a 3x3 kernel can give: 0 up to the 8 cells around the centre
NeighborCounts == 0 .. max_neighbors(TRUE)

\* every value of a u8 cell
Bytes == 0 .. U8Max

(***************************************************************************)
(* One application of a preset's closures to arguments of the caller.      *)
(***************************************************************************)
InitPresets == InitSynth

\* (rules.next_state)(old_state, neighbors) for a boolean preset
ApplyBooleanPreset ==
    /\ applied.kind = "none"
    /\ \E rules \in BooleanPresets, old_state \in BOOLEAN, neighbors \in NeighborCounts :
         applied' = [kind |-> "next_state",
                     rules |-> rules,
                     old_state |-> old_state,
                     neighbors |-> neighbors,
                     new_state |-> preset_next_state(rules, old_state, neighbors)]
    /\ UNCHANGED <<main_vars, game_vars, twin, synth>>

\* (rules.next_state)(state, neighbors) for Brian's Brain
ApplyBriansBrain ==
    /\ applied.kind = "none"
    /\ \E state \in Bytes, neighbors \in NeighborCounts :
         applied' = [kind |-> "next_state",
                     rules |-> brians_brain,
                     old_state |-> state,
                     neighbors |-> neighbors,
                     new_state |-> brians_brain_next_state(state, neighbors)]
    /\ UNCHANGED <<main_vars, game_vars, twin, synth>>

\* (rules.count_neighbor)(state, kernel) for Brian's Brain
CountBriansBrain ==
    /\ applied.kind = "none"
    /\ \E state \in Bytes, kernel_value \in BOOLEAN :
         applied' = [kind |-> "count_neighbor",
                     rules |-> brians_brain,
                     state |-> state,
                     kernel_value |-> kernel_value,
                     count |-> brians_brain_count_neighbor(state, kernel_value)]
    /\ UNCHANGED <<main_vars, game_vars, twin, synth>>

NextPresets == ApplyBooleanPreset \/ ApplyBriansBrain \/ CountBriansBrain

SpecPresets == InitPresets /\ [][NextPresets]_vars

\* the birth set of a preset in B/S notation
BirthTable(kind) ==
    CASE kind = "game_of_life" -> {3}
      [] kind = "high_life" -> {3, 6}
      [] kind = "seeds" -> {2}
      [] kind = "day_and_night" -> {3, 6, 7, 8}
      [] kind = "mazecetric" -> {3}

\* the survival set of a preset in B/S notation
SurvivalTable(kind) ==
    CASE kind = "game_of_life" -> {2, 3}
      [] kind = "high_life" -> {2, 3}
      [] kind = "seeds" -> {}
      [] kind = "day_and_night" -> {3, 4, 6, 7, 8}
      [] kind = "mazecetric" -> {1, 2, 3, 4}

AppliedBooleanPreset ==
    /\ applied.kind = "next_state"
    /\ applied.rules \in BooleanPresets

\* C14: for every old state and every neighbour count in 0..8 the next_state
\* of each boolean preset is alive exactly when the count is in the preset's
\* survival set (old state alive) or birth set (old state dead): Game of Life
\* B3/S23, HighLife B36/S23, Seeds B2/S-, Day & Night B3678/S34678,
\* Mazecetric B3/S1234; and the kernel of each preset is the Moore kernel.
C14_PresetsFollowTables ==
    AppliedBooleanPreset =>
        /\ applied.rules.kernel = MOORE_NEIGHBORHOOD
        /\ applied.new_state \in BOOLEAN
        /\ applied.new_state <=>
             IF applied.old_state
             THEN applied.neighbors \in SurvivalTable(applied.rules.kind)
             ELSE applied.neighbors \in BirthTable(applied.rules.kind)

\* Mazecetric was applied to a live cell with no live neighbour, which dies
C14_Witness ==
    /\ AppliedBooleanPreset
    /\ applied.rules = mazecetric
    /\ applied.old_state
    /\ applied.neighbors = 0
    /\ ~applied.new_state

AppliedBriansBrain ==
    /\ applied.kind \in {"next_state", "count_neighbor"}
    /\ applied.rules = brians_brain

\* C15: Brian's Brain, for every neighbour count: 255 becomes 127, 127 becomes
\* 0, 0 becomes 255 exactly when the count is 2 and stays 0 otherwise; a
\* neighbour adds one to the count exactly when the kernel selects it and its
\* state is 255; from every byte the next state is one of 0, 127, 255.
C15_BriansBrainCycle ==
    AppliedBriansBrain =>
        IF applied.kind = "count_neighbor"
        THEN applied.count =
                IF applied.kernel_value /\ applied.state = 255 THEN 1 ELSE 0
        ELSE /\ applied.new_state \in {0, 127, 255}
             /\ applied.old_state = 255 => applied.new_state = 127
             /\ applied.old_state = 127 => applied.new_state = 0
             /\ applied.old_state = 0 =>
                    applied.new_state = (IF applied.neighbors = 2 THEN 255 ELSE 0)

\* a live cell with two live neighbours was stepped and is now dying
C15_Witness ==
    /\ AppliedBriansBrain
    /\ applied.kind = "next_state"
    /\ applied.old_state = 255
    /\ applied.neighbors = 2
    /\ applied.new_state = 127

(***************************************************************************)
(* The order of the work of one tick (main.rs 70..169)                     *)
(***************************************************************************)
\* the tick that starts in this state runs through to its input drain
TickReachesDrain == pc = "tick" /\ pc' = "poll"

\* C16: in every tick the automata are stepped first (the stepped automata are
\* the ones exchanged by a swap), then the swap/reseed and the divider move take
\* place, then both frames are composited from the automata and the index as
\* these steps left them, then both frames are sent, and only then are input
\* events read; nothing of the next tick (no step, no frame, no send) happens
\* before the drain has ended with an empty poll.
C16_TickOrder ==
    [][ /\ TickReachesDrain =>
             /\ CASE swapped' = "none" ->
                       /\ left_pixels' = Step(left_pixels)
                       /\ right_pixels' = Step(right_pixels)
                  [] swapped' = "reseed_left" -> right_pixels' = Step(left_pixels)
                  [] swapped' = "reseed_right" -> left_pixels' = Step(right_pixels)
             /\ pixels' = draw_pixels(pixels, left_pixels'.field, right_pixels'.field,
                                      split_pixel')
             /\ luma' = draw_luma(luma, left_luma'.field, right_luma'.field,
                                  split_pixel' \div TileSize)
             /\ sent' = 2
             /\ drained' = 0
        /\ drained' > drained =>
             /\ pc = "poll"
             /\ sent = 2
             /\ UNCHANGED <<pixels, luma, sent, iteration, ticks, swaps>>
        /\ pc # "tick" =>
             /\ UNCHANGED <<pixels, luma, sent, iteration, ticks, swaps, split_pixel>>
             /\ pc' = "tick" => pc = "poll"
      ]_vars

\* an input event was read after the frames of a tick that swapped were sent
C16_Witness ==
    /\ pc = "poll"
    /\ swapped # "none"
    /\ sent = 2
    /\ drained = 1
    /\ pixels = draw_pixels(pixels, left_pixels.field, right_pixels.field, split_pixel)

(***************************************************************************)
(* The ways the loop of main ends (main.rs 70..169)                        *)
(***************************************************************************)
\* the loop is running: in its body or in its input drain
Running == pc \in {"tick", "poll"}

\* C17: the loop stops only when the key 'q' is read in the input drain, or
\* when a send fails; a running loop never stops any other way, and once Close
\* was read no event is read and no frame is composited or sent.
C17_StopsOnlyOnClose ==
    [][ /\ (Running /\ ~Running') =>
             \/ pc' = "closed" /\ pc = "poll" /\ last_key' = "q"
             \/ pc' = "send_failed"
        /\ pc = "closed" => UNCHANGED <<drained, last_key, sent, pixels, luma, pc>>
      ]_vars

(***************************************************************************)
(* Which automata a tick steps (main.rs 73..81)                            *)
(***************************************************************************)
\* a pass of the loop body starts in this state and does something
TickRuns == pc = "tick" /\ pc' # "tick"

\* the tick counter, as the tick finds it, is a multiple of ten
TenthTick == iteration % 10 = 0

\* C18 as stated: every tick steps each of the four automata exactly once.
C18_AllSteppedEveryTick ==
    [][ (TickRuns /\ pc' = "poll" /\ swapped' = "none") =>
            /\ left_pixels' = Step(left_pixels)
            /\ right_pixels' = Step(right_pixels)
            /\ ~StepPanics(left_luma) => left_luma' = Step(left_luma)
            /\ ~StepPanics(right_luma) => right_luma' = Step(right_luma)
      ]_vars

\* C18, amended: every tick steps both pixel automata exactly once; it steps the
\* brightness automata, left then right and once each, only when the tick
\* counter it starts with is a multiple of ten, and leaves them as they are in
\* every other tick.  (A swap then exchanges the stepped automata and reseeds
\* one side; a brightness step that fails ends the tick with the automata after
\* it unstepped.)
C18_PixelsEveryTickLumaEveryTenth ==
    [][ TickRuns =>
          IF pc' = "panicked"
          THEN /\ TenthTick
               /\ StepPanics(left_luma) \/ StepPanics(right_luma)
               /\ left_pixels' = Step(left_pixels)
               /\ right_pixels' = Step(right_pixels)
               /\ ~StepPanics(left_luma) => left_luma' = Step(left_luma)
               /\ right_luma' = right_luma
          ELSE LET ll == IF TenthTick THEN Step(left_luma) ELSE left_luma
                   rl == IF TenthTick THEN Step(right_luma) ELSE right_luma
               IN  CASE swapped' = "none" ->
                          /\ left_pixels' = Step(left_pixels)
                          /\ right_pixels' = Step(right_pixels)
                          /\ left_luma' = ll
                          /\ right_luma' = rl
                     [] swapped' = "reseed_left" ->
                          /\ right_pixels' = Step(left_pixels)
                          /\ right_luma' = ll
                     [] swapped' = "reseed_right" ->
                          /\ left_pixels' = Step(right_pixels)
                          /\ left_luma' = rl
      ]_vars

\* eleven ticks done without a swap in the last: the tick that found the
\* counter at 10 has stepped the brightness automata a second time
C18_Witness ==
    /\ pc = "poll"
    /\ ticks = 11
    /\ iteration = 11
    /\ swapped = "none"
    /\ Step(left_luma) # left_luma

(***************************************************************************)
(* Key bindings (main.rs 184..223) and the randomize events (125..140)     *)
(***************************************************************************)
\* an event was read from the input in this step
EventRead == drained' = drained + 1

\* the grid of a pixel automaton is filled with values of the generator
RandomizedPixels(automaton) ==
    automaton.field.cells \in PixelDraws(automaton.field.width, automaton.field.height)

\* the grid of a brightness automaton is filled with values of the generator
RandomizedLuma(automaton) ==
    automaton.field.cells \in ByteDraws(automaton.field.width, automaton.field.height)

\* C19: the keys act as the help text printed for 'h' says: 'd' randomizes the
\* left pixel grid, 'e' the left brightness grid, 'r' the right pixel grid and
\* 'f' the right brightness grid, each leaving the other three grids alone.
C19_KeysActAsHelpSays ==
    [][ EventRead =>
          /\ last_key' = "d" =>
               /\ RandomizedPixels(left_pixels')
               /\ UNCHANGED <<right_pixels, left_luma, right_luma>>
          /\ last_key' = "e" =>
               /\ RandomizedLuma(left_luma')
               /\ UNCHANGED <<left_pixels, right_pixels, right_luma>>
          /\ last_key' = "r" =>
               /\ RandomizedPixels(right_pixels')
               /\ UNCHANGED <<left_pixels, left_luma, right_luma>>
          /\ last_key' = "f" =>
               /\ RandomizedLuma(right_luma')
               /\ UNCHANGED <<left_pixels, right_pixels, left_luma>>
      ]_vars

\* the event the last key read maps to
EventOf(pressed) == IF pressed = "none" THEN "none" ELSE try_from(pressed)

\* the size of the grid of an automaton and its rules are as they were
SameRulesAndSize(before, after) ==
    /\ after.rules = before.rules
    /\ after.field.width = before.field.width
    /\ after.field.height = before.field.height

\* C20: a Randomize event refills the grid of the automaton it names and changes
\* nothing else: the rules of that automaton, the other three automata (grids
\* and rules), the divider index and the divider velocity stay as they were, at
\* every divider position.
C20_RandomizeChangesOneGrid ==
    [][ EventRead =>
          /\ EventOf(last_key') = "RandomizeLeftPixels" =>
               /\ SameRulesAndSize(left_pixels, left_pixels')
               /\ RandomizedPixels(left_pixels')
               /\ UNCHANGED <<right_pixels, left_luma, right_luma, split_pixel, split_speed>>
          /\ EventOf(last_key') = "RandomizeRightPixels" =>
               /\ SameRulesAndSize(right_pixels, right_pixels')
               /\ RandomizedPixels(right_pixels')
               /\ UNCHANGED <<left_pixels, left_luma, right_luma, split_pixel, split_speed>>
          /\ EventOf(last_key') = "RandomizeLeftLuma" =>
               /\ SameRulesAndSize(left_luma, left_luma')
               /\ RandomizedLuma(left_luma')
               /\ UNCHANGED <<left_pixels, right_pixels, right_luma, split_pixel, split_speed>>
          /\ EventOf(last_key') = "RandomizeRightLuma" =>
               /\ SameRulesAndSize(right_luma, right_luma')
               /\ RandomizedLuma(right_luma')
               /\ UNCHANGED <<left_pixels, right_pixels, left_luma, split_pixel, split_speed>>
      ]_vars

\* RandomizeLeftPixels was read with the divider moved and accelerated: the left
\* pixel grid is freshly filled, the right one is as its two steps left it
C20_Witness ==
    /\ pc = "poll"
    /\ EventOf(last_key) = "RandomizeLeftPixels"
    /\ ticks = 2
    /\ split_pixel = 3
    /\ split_speed = 2
    /\ RandomizedPixels(left_pixels)
    /\ ~RandomizedPixels(right_pixels)

(***************************************************************************)
(* send_to_screen (main.rs 248..257): both sends are followed by expect    *)
(***************************************************************************)
\* C21: a tick in which the send of the pixel frame or of the brightness frame
\* fails is the last thing the process does: after a failed pixel send no frame
\* of the tick is out, after a failed brightness send only the pixel frame; no
\* event of that tick is read, no send is repeated and no later tick runs.
\* The input drain is entered only after both frames were sent.
C21_SendFailureTerminates ==
    [][ /\ pc' = "send_failed" =>
             /\ pc \in {"tick", "send_failed"}
             /\ sent' \in {0, 1}
             /\ drained' = 0
        /\ pc' = "poll" => sent' = 2
        /\ pc = "send_failed" => UNCHANGED main_vars
      ]_vars

\* the second tick failed to send its pixel frame: no frame of it is out
C21_Witness ==
    /\ pc = "send_failed"
    /\ ticks = 1
    /\ sent = 0
    /\ iteration = 2

(***************************************************************************)
(* When a tick swaps (main.rs 83..106)                                     *)
(***************************************************************************)
\* the divider has reached the edge it moves towards
AtEdgeMovingOut ==
    \/ split_speed > 0 /\ split_pixel = pixels.width
    \/ split_speed < 0 /\ split_pixel = 0

\* the automata are in the roles they had, stepped or not
RolesKept ==
    /\ left_pixels' = Step(left_pixels)
    /\ right_pixels' = Step(right_pixels)
    /\ left_luma' = left_luma \/ (~StepPanics(left_luma) /\ left_luma' = Step(left_luma))
    /\ right_luma' = right_luma \/ (~StepPanics(right_luma) /\ right_luma' = Step(right_luma))

\* C22: a tick swaps and reseeds only if, when it starts, the velocity is
\* positive and the index equals the width, or the velocity is negative and the
\* index is 0; every other tick keeps the automata in their roles, and a tick
\* with velocity 0 also leaves the divider index as it is, at index 0 and at
\* index width as anywhere else.
C22_SwapOnlyAtEdge ==
    [][ TickRuns =>
          /\ (swaps' # swaps \/ (pc' = "poll" /\ swapped' # "none")) => AtEdgeMovingOut
          /\ ~AtEdgeMovingOut => RolesKept /\ swaps' = swaps
          /\ split_speed = 0 => split_pixel' = split_pixel /\ RolesKept /\ swaps' = swaps
      ]_vars

\* a tick has just run with velocity 0 and the divider on the right edge:
\* the index is still the width and nothing was swapped
C22_Witness ==
    /\ pc = "poll"
    /\ drained = 0
    /\ split_speed = 0
    /\ split_pixel = pixels.width
    /\ swapped = "none"
    /\ ticks >= 2

(***************************************************************************)
(* rules.rs 276..283: the next_state closure of a rule generate_u8b3       *)
(* returned, called with arguments of the stepper.                         *)
(***************************************************************************)
\* old states the closure is called with: both ends of the byte range and two between
OldStates == {0, 1, 128, U8Max}

\* neighbour sums: nothing, one full neighbour, eight full neighbours
NeighborSums == {0, U8Max, 8 * U8Max}

InitByteRule == InitSynth

\* generate_u8b3 with any threshold a u8 can be, then one call of the closure
ApplyU8b3 ==
    /\ applied.kind = "none"
    /\ \E alive_threshold \in Bytes, add \in AddDraws, sub \in SubDraws,
          old_state \in OldStates, neighbor_sum \in NeighborSums :
          LET rules == u8b3(TRUE, alive_threshold, {1, 2}, {2, 3}, add, sub)
          IN  applied' =
                IF u8b3_next_state_panics(rules)
                THEN [kind |-> "u8b3_next_state",
                      rules |-> rules,
                      old_state |-> old_state,
                      neighbors |-> neighbor_sum,
                      outcome |-> "panic"]
                ELSE [kind |-> "u8b3_next_state",
                      rules |-> rules,
                      old_state |-> old_state,
                      neighbors |-> neighbor_sum,
                      outcome |-> "returned",
                      new_state |-> u8b3_next_state(rules, old_state, neighbor_sum)]
    /\ UNCHANGED <<main_vars, game_vars, twin, synth>>

NextByteRule == ApplyU8b3

SpecByteRule == InitByteRule /\ [][NextByteRule]_vars

\* C23: for every alive threshold 0..255, every old state and every neighbour
\* sum, next_state of the synthesized byte rule returns, and returns a byte;
\* the division by the threshold never fails.
C23_NextStateNeverFails ==
    applied.kind = "u8b3_next_state" =>
        /\ applied.outcome = "returned"
        /\ applied.new_state \in 0 .. 255

(***************************************************************************)
(* The cadence of the brightness steps over a wrap of the tick counter     *)
(* (main.rs 66, 76..81)                                                    *)
(***************************************************************************)
\* a run without input is followed past the wrap of the 8-bit counter
CadenceTicks == 258

CadenceTick == Tick(CadenceTicks, {"ok"})

NextCadence == CadenceTick \/ EndDrain

SpecCadence == Init /\ [][NextCadence]_vars

\* the number of the tick that starts in this state, counted from 0, is a multiple of ten
TenTicksApart == ticks % 10 = 0

\* C24: the brightness automata are stepped in the first tick and from then on
\* in exactly every tenth tick, however long the run: a tick steps them if and
\* only if its number, counted from 0, is a multiple of ten, also after the
\* 8-bit tick counter has wrapped.
C24_LumaEveryTenTicks ==
    [][ TickReachesDrain =>
          LET ll == IF TenTicksApart THEN Step(left_luma) ELSE left_luma
              rl == IF TenTicksApart THEN Step(right_luma) ELSE right_luma
          IN  CASE swapped' = "none" -> left_luma' = ll /\ right_luma' = rl
                [] swapped' = "reseed_left" -> right_luma' = ll
                [] swapped' = "reseed_right" -> left_luma' = rl
      ]_vars

(***************************************************************************)
(* Progress of the divider (main.rs 83..106): the loop never waits, so a   *)
(* tick or the end of a drain that can happen does happen.                 *)
(***************************************************************************)
SpecQuietFair == Init /\ [][NextQuiet]_vars /\ WF_vars(NextQuiet)

\* C25: with a fixed non-zero velocity and no input the swaps keep coming: the
\* divider eventually lands on the edge it moves towards and the next tick
\* swaps and reseeds.  Of a run that starts with velocity 1: a first swap
\* eventually happens.
C25_SwapEventually == (ticks = 0 /\ split_speed # 0) ~> (swaps >= 1)

====
